---- MODULE Spec2Model ----
(***************************************************************************)
(* ParcelDerivatives.py: one run of derived_parcels().  The geoprocessing  *)
(* engine (arcpy) is external: every call either returns or raises, and    *)
(* the model takes both outcomes at every call.  Datasets are named by     *)
(* their paths, a path being the sequence of components os.path.join put   *)
(* together.  The contents of the owner-name extracts, the city parcels    *)
(* and the mow zones are modelled; the permit overlays and the other       *)
(* subject parcels are tracked by name only (contents Opaque).             *)
(***************************************************************************)
EXTENDS Integers, Sequences, FiniteSets, TLC

VARIABLES
  pc,        \* position in derived_parcels: "init","try","except","finally","returned","propagated"
  step,      \* index (1..9) of the pipeline step the try body is at
  ip,        \* within the step: 0 = before its Started record, k = next arcpy call, Len+1 = after the last
  exc,       \* the exception in flight ("None" when there is none)
  caught,    \* TRUE once an except clause has taken the exception
  log,       \* records handed to logger, in order
  shutdown,  \* logging.shutdown() has been called
  calls,     \* arcpy calls issued so far, in order (a call that raised included)
  events,    \* calls / returns / raises of the step functions, in order
  gdb,       \* datasets and layers written so far: path -> contents
  owners,    \* input: the rows of soa.SANGIS.ptinfo1
  limits     \* input: the locations SPI_LIMITS covers

vars == <<pc, step, ip, exc, caught, log, shutdown, calls, events, gdb, owners, limits>>

\* longest owner table the inputs are drawn from
MaxOwners == 2
\* the same, for the runs checked for termination
MaxOwnersFair == 1

----------------------------------------------------------------------------
\* Paths (lines 74-140)

\* os.path.join of a path and one more component
join(p, name) == Append(p, name)

\* a layer or a result object held in memory, named by its layer name or variable
Layer(name) == <<"layer", name>>

fgdb_services == <<"F:\\Shares\\FGDB_Services">>
connections == join(fgdb_services, "DatabaseConnections")
data == join(fgdb_services, "Data")
cityworks_view == join(connections, "DA@mcwintcwdb.cwprod@CityworksView.sde")
cityworks_prod == join(connections, "da@mcwintcwdb.cwprod@imSPFLD.sde")
sde == join(connections, "COSGIS@10.136.40.46@SOA.sde")
rdl == <<"X:\\FG_RDL.gdb">>

assessment_information == join(cityworks_prod, "AssessmentInformation")
enterprise_zone == join(assessment_information, "EnterpriseZone")
tif_districts == join(assessment_information, "TIFDistrict")

reference_data == join(cityworks_prod, "ReferenceData")
facility_site_point == join(reference_data, "FacilitySitePoint")

parcel_owners == join(sde, "soa.SANGIS.ptinfo1")
cadastral == join(sde, "soa.SANGIS.Cadastral")
demography == join(cityworks_prod, "Demography")
census_tracts == join(demography, "Tract2010Insp")
qualified_census_tracts == join(demography, "CenTract_Qualified")
parcel_polygons == join(cadastral, "soa.SANGIS.Parcel_Poly")

parcel_derivatives == join(data, "ParcelDerivatives.gdb")
parcels == join(parcel_derivatives, "ParcelPolygons")
parcels_nehemiah_table == join(parcel_derivatives, "Parcels_Nehemiah_table")
parcels_tsp_table == join(parcel_derivatives, "Parcels_TSP_table")
parcels_city_table == join(parcel_derivatives, "Parcels_City_table")
parcels_commercial_table == join(parcel_derivatives, "Parcels_Commercial_table")
parcels_owner_city == join(parcel_derivatives, "Parcels_City")
parcels_cwlp == join(parcel_derivatives, "Parcels_CWLP")
parcels_cospw == join(parcel_derivatives, "Parcels_COSPW")
parcels_oped == join(parcel_derivatives, "Parcels_OPED")
parcels_trustee == join(parcel_derivatives, "Parcels_CountyTrustee")
parcels_poi == join(parcel_derivatives, "Parcel_POI")
parcels_surplus == join(rdl, "SurplusProperty")

permits_issued == join(parcel_derivatives, "Permits_Issued")
permits_CTQ == join(parcel_derivatives, "Permits_CTQ")
permits_CTQ_EZ == join(parcel_derivatives, "Permits_CTQ_EZ")
permits_CTQ_EZ_TIF == join(parcel_derivatives, "Permits_CTQ_EZ_TIF")
permits_CTQ_EZ_TIF_WARDS == join(parcel_derivatives, "Permits_CTQ_EZ_TIF_WARDS")
permits_opportunity_zones == join(parcel_derivatives, "Permits_OpportunityZones")
parcels_permits_issued == join(parcel_derivatives, "Parcels_PermitsIssued")

parcels_owner_medical_table == join(parcel_derivatives, "Parcels_Medical_table")
parcels_owner_schools_table == join(parcel_derivatives, "Parcels_Schools_table")
parcels_owner_state_table == join(parcel_derivatives, "Parcels_State_table")

admin_area == join(cityworks_prod, "AdministrativeArea")
admin_area_merged == join(admin_area, "SPI_Administrative_Areas_Merged")
city_limits == join(admin_area, "SPI_LIMITS")

infrastructure_operations == join(cityworks_prod, "InfrastructureOperations")
row == join(infrastructure_operations, "ROW")
mow_zones == join(parcel_derivatives, "MowZones")

\* List of features to clean up (lines 143-145)
to_delete ==
  << parcels, permits_CTQ, permits_CTQ_EZ, permits_CTQ_EZ_TIF, permits_CTQ_EZ_TIF_WARDS,
     parcels_nehemiah_table, parcels_tsp_table, parcels_city_table,
     parcels_owner_city, parcels_owner_medical_table, parcels_owner_schools_table,
     parcels_owner_state_table, parcels_commercial_table >>

----------------------------------------------------------------------------
\* Exceptions (lines 426-445)

\* the base class of each exception class a call can raise or a clause names
\* (IOError is OSError in Python 3; arcpy.ExecuteError derives from Exception)
ExcBase ==
  [ Exception |-> "BaseException", KeyboardInterrupt |-> "BaseException",
    ValueError |-> "Exception", UnicodeError |-> "ValueError",
    OSError |-> "Exception", FileNotFoundError |-> "OSError",
    LookupError |-> "Exception", KeyError |-> "LookupError", IndexError |-> "LookupError",
    NameError |-> "Exception", UnboundLocalError |-> "NameError",
    TypeError |-> "Exception", ExecuteError |-> "Exception",
    RuntimeError |-> "Exception", AttributeError |-> "Exception" ]

RECURSIVE IsInstance(_, _)
\* isinstance(e, cls): cls is e's class or one of its bases
IsInstance(e, cls) ==
  \/ e = cls
  \/ e \in DOMAIN ExcBase /\ IsInstance(ExcBase[e], cls)

\* the classes named by the three except clauses, in clause order
ExceptClauses ==
  << {"ValueError"},
     {"OSError", "KeyError", "NameError", "IndexError", "TypeError", "UnboundLocalError"},
     {"ExecuteError"} >>

\* clause k matches exception e
Matches(k, e) == \E cls \in ExceptClauses[k] : IsInstance(e, cls)

\* as Handler, were a clause to take only the very classes it names
HandlerExactClass(e) ==
  IF \E k \in 1..Len(ExceptClauses) : e \in ExceptClauses[k]
  THEN CHOOSE k \in 1..Len(ExceptClauses) : e \in ExceptClauses[k]
  ELSE 0

\* the clause that takes e: the first that matches (0: none does)
Handler(e) ==
  IF \E k \in 1..Len(ExceptClauses) : Matches(k, e)
  THEN CHOOSE k \in 1..Len(ExceptClauses) :
         Matches(k, e) /\ \A j \in 1..(k-1) : ~Matches(j, e)
  ELSE 0

\* what an arcpy call or the interpreter can raise inside a step
Raisable == {"UnicodeError", "FileNotFoundError", "ExecuteError", "RuntimeError"}

----------------------------------------------------------------------------
\* Source data and the engine's operations on contents

\* contents of a dataset the model tracks by name only
Opaque == <<>>
\* a field without a value
Null == <<>>
\* an operation without an output dataset
NoOut == <<>>

\* s LIKE '%pat%', on names taken word by word
Like(s, pat) ==
  \E i \in 0..(Len(s) - Len(pat)) : \A j \in 1..Len(pat) : s[i + j] = pat[j]

\* the rows the owner table is drawn from
OwnerRows ==
  { [PIN1 |-> 1, Owner1 |-> <<"NEHEMIAH", "EXPANSION">>, MTGCode |-> 73],
    [PIN1 |-> 2, Owner1 |-> <<"NEHEMIAH", "HOMES">>, MTGCode |-> 66],
    [PIN1 |-> 1, Owner1 |-> <<"SANGAMON", "COUNTY", "TRUSTEE">>, MTGCode |-> 0],
    [PIN1 |-> 2, Owner1 |-> <<"SANGAMON", "COUNTY", "TRUSTEE">>, MTGCode |-> 72] }

RECURSIVE SeqsUpTo(_, _)
\* the sequences over S of length at most n
SeqsUpTo(S, n) ==
  IF n = 0 THEN {<<>>}
  ELSE LET shorter == SeqsUpTo(S, n - 1)
       IN shorter \cup {Append(t, x) : t \in shorter, x \in S}

\* the locations a city limit can cover
Locations == {1, 2}

\* soa.SANGIS.Parcel_Poly
ParcelPoly ==
  << [PIN |-> 1, Shape |-> [id |-> "P1", center |-> 1]],
     [PIN |-> 2, Shape |-> [id |-> "P2", center |-> 2]] >>

\* X:\FG_RDL.gdb\SurplusProperty
SurplusProperty ==
  << [PIN |-> 2, Use |-> <<"Vacant", "Lot">>, Status |-> <<"Available">>,
      Shape |-> [id |-> "P2", center |-> 2]],
     [PIN |-> 7, Use |-> <<"Building">>, Status |-> <<"Sold">>,
      Shape |-> [id |-> "P7", center |-> 1]] >>

\* InfrastructureOperations\ROW
ROW ==
  << [Use_ |-> <<"ROW">>, Description |-> <<"Median">>, MowedBy |-> Null,
      FacilityID |-> Null, Status |-> Null, Shape |-> [id |-> "R1", center |-> 3]],
     [Use_ |-> <<"Vacant", "Lot">>, Description |-> <<"SANGAMON", "COUNTY", "TRUSTEE">>,
      MowedBy |-> Null, FacilityID |-> Null, Status |-> Null,
      Shape |-> [id |-> "R2", center |-> 3]] >>

\* contents of dataset p given the datasets g written so far; the enterprise
\* sources are read from the inputs
Read(g, p) ==
  IF p \in DOMAIN g THEN g[p]
  ELSE IF p = parcel_owners THEN owners
  ELSE IF p = parcel_polygons THEN ParcelPoly
  ELSE IF p = parcels_surplus THEN SurplusProperty
  ELSE IF p = row THEN ROW
  ELSE Opaque

\* dataset p written (created or overwritten: arcpy.env.overwriteOutput = True)
Write(g, p, contents) ==
  [q \in DOMAIN g \cup {p} |-> IF q = p THEN contents ELSE g[q]]

\* Delete_management(p)
Remove(g, p) == [q \in DOMAIN g \ {p} |-> g[q]]

\* rows of tbl whose PIN1 equals the PIN of feature f
JoinMatches(f, tbl) == {i \in 1..Len(tbl) : tbl[i].PIN1 = f.PIN}

\* feature f with the fields of the first matching row of tbl
Joined(f, tbl) ==
  LET r == tbl[CHOOSE i \in JoinMatches(f, tbl) : \A j \in JoinMatches(f, tbl) : i <= j]
  IN [PIN |-> f.PIN, Shape |-> f.Shape, Owner1 |-> r.Owner1, MTGCode |-> r.MTGCode, PIN1 |-> r.PIN1]

\* AddJoin_management(fc, "PIN", tbl, "PIN1", "KEEP_COMMON")
AddJoin(fc, tbl) ==
  LET hasRow(f) == JoinMatches(f, tbl) # {}
      kept == SelectSeq(fc, hasRow)
  IN [i \in 1..Len(kept) |-> Joined(kept[i], tbl)]

\* as HaveTheirCenterIn, were the selection to take every feature
HaveTheirCenterInAll(fc, area) == 1..Len(fc)

\* SelectLayerByLocation_management(fc, "HAVE_THEIR_CENTER_IN", city_limits)
\* the positions selected
HaveTheirCenterIn(fc, area) == {i \in 1..Len(fc) : fc[i].Shape.center \in area}

\* the features of fc at the positions in sel, in table order, from position i on
RECURSIVE Pick(_, _, _)
Pick(fc, sel, i) ==
  IF i > Len(fc) THEN <<>>
  ELSE (IF i \in sel THEN <<fc[i]>> ELSE <<>>) \o Pick(fc, sel, i + 1)

\* the selected features of a layer: what a tool given the layer works on
Selected(fc, sel) == Pick(fc, sel, 1)


----------------------------------------------------------------------------
\* Where clauses and field mappings

\* lines 246-249
NehemiahWhere(r) ==
  \/ Like(r.Owner1, <<"NEHEMIAH", "AFFORDABLE", "HOUSING", "II">>)
  \/ Like(r.Owner1, <<"NEHEMIAH", "AFFORDABLE", "HOUSING", "LP">>)
  \/ Like(r.Owner1, <<"NEHEMIAH", "EXPANSION">>)
  \/ Like(r.Owner1, <<"NEHEMIAH", "PSJ", "LP">>)

\* line 256
TSPWhere(r) == Like(r.Owner1, <<"TSP">>)

\* line 263
CityWhere(r) ==
  \/ r.MTGCode = 26 \/ r.MTGCode = 66 \/ r.MTGCode = 72 \/ r.MTGCode = 73
  \/ r.Owner1 = <<"SANGAMON", "COUNTY", "TRUSTEE">>

\* as CWLPWhere, without the second code
CWLPWhereOnly26(r) == r.MTGCode = 26

\* lines 270-273
CWLPWhere(r) == r.MTGCode = 26 \/ r.MTGCode = 66
COSPWWhere(r) == r.MTGCode = 72
OPEDWhere(r) == r.MTGCode = 73
TrusteeWhere(r) == r.Owner1 = <<"SANGAMON", "COUNTY", "TRUSTEE">>

\* the text of a path, as an f-string formats it
RECURSIVE Format(_)
Format(p) ==
  IF Len(p) = 1 THEN p[1]
  ELSE Format(SubSeq(p, 1, Len(p) - 1)) \o "\\" \o p[Len(p)]

\* A field-mapping string is kept as the sequence of its pieces: the
\* characters ";", "," and " " that delimit it, and the runs of text between
\* them (the blanks inside the alias and type of a field stay in one run).
Delimiters == {";", ",", " "}

\* the text a followed by the text b: the run ending a and the run
\* starting b are one run of the result
Cat(a, b) ==
  IF a = <<>> THEN b
  ELSE IF b = <<>> THEN a
  ELSE IF a[Len(a)] \in Delimiters \/ b[1] \in Delimiters THEN a \o b
  ELSE SubSeq(a, 1, Len(a) - 1) \o <<a[Len(a)] \o b[1]>> \o SubSeq(b, 2, Len(b))

\* adjacent string literals, concatenated from literal i on
RECURSIVE CatFrom(_, _)
CatFrom(lits, i) ==
  IF i > Len(lits) THEN <<>> ELSE Cat(lits[i], CatFrom(lits, i + 1))

\* the text "name props,First,#"
Unmapped(name, props) == <<name, " ", props, ",", "First", ",", "#">>

\* the text ",field,start,end"
FromField(field, start, end) == <<",", field, ",", start, ",", end>>

\* lines 334-351: the literals of the first field mapping, one per line
trustee_field_mapping_literals ==
  << Unmapped("ItemNo", "'ItemNo' true true false 2 Short 0 0") \o <<";">>,
     Unmapped("Use_", "'Use_' true true false 50 Text 0 0") \o <<";">>,
     Cat(Cat(Unmapped("Description", "'Desc' true true false 50 Text 0 0") \o <<",">>,
             <<Format(parcels_trustee)>>),
         FromField("Owner1", "0", "30")),
     Unmapped("DateAdded", "'DateAdded' true true false 8 Date 0 0") \o <<";">>,
     Unmapped("Misc", "'Misc' true true false 50 Text 0 0") \o <<";">>,
     Unmapped("MowedBy", "'MowedBy' true true false 50 Text 0 0") \o <<";">>,
     Unmapped("GlobalID", "'GlobalID' false false true 38 GlobalID 0 0") \o <<";">>,
     Unmapped("Date1", "'Date1' true true false 8 Date 0 0") \o <<";">>,
     Unmapped("Date2", "'Date2' true true false 8 Date 0 0") \o <<";">>,
     Unmapped("Nbr1", "'Nbr1' true true false 8 Double 0 0") \o <<";">>,
     Unmapped("Nbr2", "'nbr2' true true false 8 Double 0 0") \o <<";">>,
     Unmapped("Test1", "'Test1' true true false 15 Text 0 0") \o <<";">>,
     Unmapped("Test2", "'Test2' true true false 25 Text 0 0") \o <<";">>,
     Cat(Cat(Unmapped("FacilityID", "'Facility Identifier' true true false 50 Text 0 0") \o <<",", "P">>,
             <<Format(parcels_trustee)>>),
         <<"e">> \o FromField("PIN", "0", "255") \o <<";">>),
     Unmapped("NAD83X", "'Easting(X)' true true false 8 Double 0 0") \o <<";">>,
     Unmapped("NAD83Y", "'Northing(Y)' true true false 8 Double 0 0") \o <<";">>,
     Unmapped("Status", "'Status' true true false 50 Text 0 0") \o <<";">>,
     Unmapped("Lbl", "'Lbl' true true false 50 Text 0 0") >>

\* lines 356-373: the literals of the second field mapping, one per line
surplus_field_mapping_literals ==
  << Unmapped("ItemNo", "'ItemNo' true true false 2 Short 0 0") \o <<";">>,
     Cat(Cat(Unmapped("Use_", "'Use_' true true false 50 Text 0 0") \o <<",">>,
             <<Format(parcels_surplus)>>),
         FromField("Use", "0", "50") \o <<";">>),
     Unmapped("Description", "'Desc' true true false 50 Text 0 0") \o <<";", "D">>,
     Unmapped("ateAdded", "'DateAdded' true true false 8 Date 0 0") \o <<";">>,
     Unmapped("Misc", "'Misc' true true false 50 Text 0 0") \o <<";">>,
     Unmapped("MowedBy", "'MowedBy' true true false 50 Text 0 0") \o <<";">>,
     Unmapped("GlobalID", "'GlobalID' false false true 38 GlobalID 0 0") \o <<";">>,
     Unmapped("Date1", "'Date1' true true false 8 Date 0 0") \o <<";">>,
     Unmapped("Date2", "'Date2' true true false 8 Date 0 0") \o <<";">>,
     Unmapped("Nbr1", "'Nbr1' true true false 8 Double 0 0") \o <<";">>,
     Unmapped("Nbr2", "'nbr2' true true false 8 Double 0 0") \o <<";">>,
     Unmapped("Test1", "'Test1' true true false 15 Text 0 0") \o <<";">>,
     Unmapped("Test2", "'Test2' true true false 25 Text 0 0") \o <<";">>,
     Cat(Cat(Unmapped("FacilityID", "'Facility Identifier' true true false 50 Text 0 0") \o <<",">>,
             <<Format(parcels_surplus)>>),
         FromField("PIN", "0", "255") \o <<";">>),
     Unmapped("NAD83X", "'Easting(X)' true true false 8 Double 0 0") \o <<";">>,
     Unmapped("NAD83Y", "'Northing(Y)' true true false 8 Double 0 0") \o <<";">>,
     Cat(Cat(Unmapped("Status", "'Status' true true false 50 Text 0 0") \o <<",">>,
             <<Format(parcels_surplus)>>),
         FromField("Status", "0", "50") \o <<";">>),
     Unmapped("Lbl", "'Lbl' true true false 50 Text 0 0") >>

\* the strings handed to Append_management
trustee_field_mapping == CatFrom(trustee_field_mapping_literals, 1)
surplus_field_mapping == CatFrom(surplus_field_mapping_literals, 1)

\* line 377
DescriptionTrusteeWhere(r) == Like(r.Description, <<"SANGAMON", "COUNTY", "TRUSTEE">>)
\* line 379
UseVacantLotWhere(r) == Like(r.Use_, <<"Vacant", "Lot">>)

\* the where clause the engine is handed, evaluated on row r
Sql(where, r) ==
  CASE where = "Owner1 LIKE '%NEHEMIAH AFFORDABLE HOUSING II%' Or Owner1 LIKE '%NEHEMIAH AFFORDABLE HOUSING LP%' Or Owner1 LIKE '%NEHEMIAH EXPANSION%' Or Owner1 LIKE '%NEHEMIAH PSJ LP%'"
         -> NehemiahWhere(r)
    [] where = "Owner1 LIKE '%TSP%'" -> TSPWhere(r)
    [] where = "MTGCode = 26 Or MTGCODE =66 Or MTGCode = 72 Or MTGCode = 73 Or Owner1 = 'SANGAMON COUNTY TRUSTEE'"
         -> CityWhere(r)
    [] where = "SubjectParcels.MTGCode = 26 Or SubjectParcels.MTGCode = 66" -> CWLPWhere(r)
    [] where = "SubjectParcels.MTGCode = 72" -> COSPWWhere(r)
    [] where = "SubjectParcels.MTGCode = 73" -> OPEDWhere(r)
    [] where = "SubjectParcels.Owner1 = 'SANGAMON COUNTY TRUSTEE'" -> TrusteeWhere(r)
    [] where = "Description LIKE '%SANGAMON COUNTY TRUSTEE%'" -> DescriptionTrusteeWhere(r)
    [] where = "Use_ LIKE '%Vacant Lot%'" -> UseVacantLotWhere(r)

\* text.split(sep): the pieces of text between the delimiters sep
RECURSIVE Split(_, _)
Split(text, sep) ==
  IF \A k \in 1..Len(text) : text[k] # sep THEN <<text>>
  ELSE LET k == CHOOSE i \in 1..Len(text) :
                  text[i] = sep /\ \A j \in 1..(i - 1) : text[j] # sep
       IN <<SubSeq(text, 1, k - 1)>> \o Split(SubSeq(text, k + 1, Len(text)), sep)

\* the entries of a field-mapping string, and the parts of an entry
Entries(mapping) == Split(mapping, ";")
Parts(entry) == Split(entry, ",")

\* the entry has the documented form: "name props,First,#", alone or
\* followed by one ",path,field,start,end"
WellFormedEntry(entry) ==
  LET ps == Parts(entry)
  IN /\ Len(ps) \in {3, 7}
     /\ Len(ps[1]) = 3 /\ ps[1][2] = " "
     /\ ps[2] = <<"First">> /\ ps[3] = <<"#">>
     /\ \A k \in 4..Len(ps) : Len(ps[k]) = 1

\* the value of a field of feature f, as the text a Text field takes
Value(f, field) == IF field = "PIN" THEN <<f.PIN>> ELSE f[field]

\* where target field t of a feature appended from src comes from under
\* the mapping: from no field ("none": no entry for t, or an entry of the
\* documented form that names no source), from a source field ("field": an
\* entry of the documented form that names src), or from what the engine
\* makes of any other entry ("unclear", with the field named in fifth place)
Source(mapping, src, t) ==
  LET es == Entries(mapping)
      named == {k \in 1..Len(es) : es[k] # <<>> /\ es[k][1] = t}
  IN IF named = {} THEN [form |-> "none", field |-> ""]
     ELSE LET e == es[CHOOSE k \in named : \A j \in named : k <= j]
              ps == Parts(e)
          IN IF WellFormedEntry(e) /\ Len(ps) = 3 THEN [form |-> "none", field |-> ""]
             ELSE IF WellFormedEntry(e) /\ ps[4] = <<Format(src)>>
                  THEN [form |-> "field", field |-> ps[5][1]]
             ELSE IF Len(ps) >= 5 /\ Len(ps[5]) = 1
                  THEN [form |-> "unclear", field |-> ps[5][1]]
             ELSE [form |-> "unclear", field |-> ""]

\* the fields of MowZones the calculations and selections work on
Fields == {"Use_", "Description", "MowedBy", "FacilityID", "Status"}

\* the two mappings of mowing_parcels as the engine reads them
trustee_field_sources == [t \in Fields |-> Source(trustee_field_mapping, parcels_trustee, t)]
surplus_field_sources == [t \in Fields |-> Source(surplus_field_mapping, parcels_surplus, t)]

\* the reading of the mapping handed over with the features of src
Sources(mapping, src) ==
  CASE mapping = trustee_field_mapping /\ src = parcels_trustee -> trustee_field_sources
    [] mapping = surplus_field_mapping /\ src = parcels_surplus -> surplus_field_sources

\* what target field t of an appended feature f gets. What the engine makes
\* of an unclear entry is not fixed by the code: it reads the source field
\* named in fifth place (lenient) or gives nothing.
Mapped(sources, f, t, lenient) ==
  IF \/ sources[t].form = "field"
     \/ sources[t].form = "unclear" /\ lenient /\ sources[t].field \in DOMAIN f
  THEN Value(f, sources[t].field)
  ELSE Null

\* feature f of src as Append_management writes it under the field mapping
FieldMap(mapping, src, f, lenient) ==
  [Use_ |-> Mapped(Sources(mapping, src), f, "Use_", lenient),
   Description |-> Mapped(Sources(mapping, src), f, "Description", lenient),
   MowedBy |-> Mapped(Sources(mapping, src), f, "MowedBy", lenient),
   FacilityID |-> Mapped(Sources(mapping, src), f, "FacilityID", lenient),
   Status |-> Mapped(Sources(mapping, src), f, "Status", lenient),
   Shape |-> f.Shape]

\* TableToTable_conversion with a where clause
TableToTable(tbl, where) ==
  LET keep(r) == Sql(where, r)
  IN SelectSeq(tbl, keep)

\* Select_analysis with a where clause
Select_analysis(fc, where) ==
  LET keep(r) == Sql(where, r)
  IN SelectSeq(fc, keep)

\* as SelectLayerByAttribute, were the where clause to be ignored
SelectLayerByAttributeAll(fc, where) == 1..Len(fc)

\* SelectLayerByAttribute_management(fc, "NEW_SELECTION", where): the positions selected
SelectLayerByAttribute(fc, where) == {i \in 1..Len(fc) : Sql(where, fc[i])}

\* Append_management(the selected features of src, target, "NO_TEST", field mapping)
Append_management(target, src, feats, field_mapping, lenient) ==
  target \o [i \in 1..Len(feats) |-> FieldMap(field_mapping, src, feats[i], lenient)]

\* record r with each [field, value] pair of fields assigned, a later pair
\* of the same field winning
Assigned(r, fields) ==
  [f \in DOMAIN r |->
     IF \E i \in 1..Len(fields) : fields[i][1] = f
     THEN fields[CHOOSE i \in 1..Len(fields) :
                   fields[i][1] = f /\ \A j \in (i+1)..Len(fields) : fields[j][1] # f][2]
     ELSE r[f]]

\* CalculateField_management / CalculateFields_management on the selected
\* positions of fc
Calculate(fc, sel, fields) ==
  [i \in 1..Len(fc) |-> IF i \in sel THEN Assigned(fc[i], fields) ELSE fc[i]]

----------------------------------------------------------------------------
\* The arcpy calls of each step, in program order

Op(tool, ins, out) == [tool |-> tool, ins |-> ins, out |-> out]

MakeFeatureLayer(in, name) == Op("MakeFeatureLayer_management", {in}, Layer(name))
SpatialJoin(target, joinfc, out) == Op("SpatialJoin_analysis", {target, joinfc}, out)
FeatureClassToFeatureClass(in, out_path, out_name) ==
  Op("FeatureClassToFeatureClass_conversion", {in}, join(out_path, out_name))
TableToTable_conversion(in, out_path, out_name) ==
  Op("TableToTable_conversion", {in}, join(out_path, out_name))
AddJoin_management(fc, tbl) == Op("AddJoin_management", {fc, tbl}, Layer("joined_tables"))

\* lines 154-240
permits_to_parcels_ops ==
  << Op("MakeQueryLayer_management", {cityworks_view}, Layer("Query_PermitsIssued")),
     FeatureClassToFeatureClass(Layer("Query_PermitsIssued"), parcel_derivatives, "Permits_Issued"),
     MakeFeatureLayer(permits_issued, "Permits_Issued"),
     MakeFeatureLayer(qualified_census_tracts, "CensusTracts"),
     SpatialJoin(Layer("Permits_Issued"), Layer("CensusTracts"), permits_CTQ),
     MakeFeatureLayer(permits_CTQ, "Permits_CTQ"),
     MakeFeatureLayer(enterprise_zone, "EnterpriseZone"),
     SpatialJoin(Layer("Permits_CTQ"), Layer("EnterpriseZone"), permits_CTQ_EZ),
     MakeFeatureLayer(permits_CTQ_EZ, "permits_CTQ_EZ"),
     MakeFeatureLayer(tif_districts, "TIFDistricts"),
     SpatialJoin(Layer("permits_CTQ_EZ"), Layer("TIFDistricts"), permits_CTQ_EZ_TIF),
     MakeFeatureLayer(permits_CTQ_EZ_TIF, "permits_CTQ_EZ_TIF"),
     MakeFeatureLayer(admin_area_merged, "AdministrativeAreaMerged"),
     SpatialJoin(Layer("permits_CTQ_EZ_TIF"), Layer("AdministrativeAreaMerged"), permits_CTQ_EZ_TIF_WARDS),
     MakeFeatureLayer(permits_CTQ_EZ_TIF_WARDS, "permits_CTQ_EZ_TIF_WARDS"),
     MakeFeatureLayer(census_tracts, "CensusTracts"),
     SpatialJoin(Layer("permits_CTQ_EZ_TIF_WARDS"), Layer("CensusTracts"), permits_opportunity_zones),
     FeatureClassToFeatureClass(parcel_polygons, parcel_derivatives, "ParcelPolygons"),
     MakeFeatureLayer(parcels, "ParcelPolygons"),
     Op("SelectLayerByLocation_management", {Layer("ParcelPolygons"), permits_issued}, Layer("selected_parcels")),
     MakeFeatureLayer(permits_opportunity_zones, "Permits_OpportunityZones"),
     SpatialJoin(Layer("selected_parcels"), Layer("Permits_OpportunityZones"), parcels_permits_issued) >>

\* lines 245-251
nehemiah_parcels_ops ==
  << TableToTable_conversion(parcel_owners, parcel_derivatives, "Parcels_Nehemiah_table"),
     AddJoin_management(parcel_polygons, parcels_nehemiah_table),
     FeatureClassToFeatureClass(Layer("joined_tables"), parcel_derivatives, "Parcels_Nehemiah") >>

\* lines 256-258
tsp_parcels_ops ==
  << TableToTable_conversion(parcel_owners, parcel_derivatives, "Parcels_TSP_table"),
     AddJoin_management(parcel_polygons, parcels_tsp_table),
     FeatureClassToFeatureClass(Layer("joined_tables"), parcel_derivatives, "Parcels_TSP") >>

\* lines 263-273
city_parcels_ops ==
  << TableToTable_conversion(parcel_owners, parcel_derivatives, "Parcels_City_table"),
     AddJoin_management(parcel_polygons, parcels_city_table),
     FeatureClassToFeatureClass(Layer("joined_tables"), parcel_derivatives, "Parcels_City"),
     Op("Select_analysis", {parcels_owner_city}, parcels_cwlp),
     Op("Select_analysis", {parcels_owner_city}, parcels_cospw),
     Op("Select_analysis", {parcels_owner_city}, parcels_oped),
     Op("Select_analysis", {parcels_owner_city}, parcels_trustee) >>

\* line 277
surplus_parcels_ops ==
  << FeatureClassToFeatureClass(parcels_surplus, parcel_derivatives, "Parcels_SurplusProperty") >>

\* lines 283-320
other_subject_parcels_ops ==
  << TableToTable_conversion(parcel_owners, parcel_derivatives, "Parcels_Medical_table"),
     AddJoin_management(parcel_polygons, parcels_owner_medical_table),
     FeatureClassToFeatureClass(Layer("joined_tables"), parcel_derivatives, "Parcels_Medical"),
     TableToTable_conversion(parcel_owners, parcel_derivatives, "Parcels_Schools_table"),
     AddJoin_management(parcel_polygons, parcels_owner_schools_table),
     FeatureClassToFeatureClass(Layer("joined_tables"), parcel_derivatives, "Parcels_Schools"),
     TableToTable_conversion(parcel_owners, parcel_derivatives, "Parcels_State_Table"),
     AddJoin_management(parcel_polygons, parcels_owner_state_table),
     FeatureClassToFeatureClass(Layer("joined_tables"), parcel_derivatives, "Parcels_State"),
     TableToTable_conversion(parcel_owners, parcel_derivatives, "Parcels_Commercial_table"),
     AddJoin_management(parcel_polygons, parcels_commercial_table),
     FeatureClassToFeatureClass(Layer("joined_tables"), parcel_derivatives, "Parcels_Commercial") >>

\* line 324
poi_parcels_ops ==
  << SpatialJoin(parcel_polygons, facility_site_point, parcels_poi) >>

\* lines 329-381
mowing_parcels_ops ==
  << FeatureClassToFeatureClass(row, parcel_derivatives, "MowZones"),
     Op("SelectLayerByLocation_management", {parcels_trustee, city_limits}, Layer("selected_city_parcels")),
     [tool |-> "Append_management", ins |-> {Layer("selected_city_parcels"), mow_zones},
      out |-> mow_zones, field_mapping |-> trustee_field_mapping],
     Op("SelectLayerByLocation_management", {parcels_surplus, city_limits}, Layer("selected_surplus_property_parcels")),
     [tool |-> "Append_management", ins |-> {Layer("selected_surplus_property_parcels"), mow_zones},
      out |-> mow_zones, field_mapping |-> surplus_field_mapping],
     Op("CalculateField_management", {mow_zones}, mow_zones),
     Op("SelectLayerByAttribute_management", {mow_zones}, Layer("selected_county_trustee_parcels")),
     Op("CalculateFields_management", {Layer("selected_county_trustee_parcels")}, mow_zones),
     Op("SelectLayerByAttribute_management", {mow_zones}, Layer("selected_surplus_property_parcels")),
     Op("CalculateField_management", {Layer("selected_surplus_property_parcels")}, mow_zones),
     Op("CalculateFields_management", {Layer("selected_surplus_property_parcels")}, mow_zones) >>

\* as delete_ops, with the loop stopping one entry short
delete_ops_short ==
  [i \in 1..(Len(to_delete) - 1) |-> Op("Delete_management", {to_delete[i]}, NoOut)]

\* lines 385-386: one Delete_management per entry of to_delete
delete_ops == [i \in 1..Len(to_delete) |-> Op("Delete_management", {to_delete[i]}, NoOut)]

\* as StepName, with the two owner-name extracts called the other way round
StepNameSwapped ==
  << "permits_to_parcels", "tsp_parcels", "nehemiah_parcels", "city_parcels", "surplus_parcels",
     "other_subject_parcels", "poi_parcels", "mowing_parcels", "delete" >>

\* the step functions in the order the try body calls them (lines 390-424)
StepName ==
  << "permits_to_parcels", "nehemiah_parcels", "tsp_parcels", "city_parcels", "surplus_parcels",
     "other_subject_parcels", "poi_parcels", "mowing_parcels", "delete" >>

\* the arcpy calls of a step function
OpsOf(fn) ==
  CASE fn = "permits_to_parcels" -> permits_to_parcels_ops
    [] fn = "nehemiah_parcels" -> nehemiah_parcels_ops
    [] fn = "tsp_parcels" -> tsp_parcels_ops
    [] fn = "city_parcels" -> city_parcels_ops
    [] fn = "surplus_parcels" -> surplus_parcels_ops
    [] fn = "other_subject_parcels" -> other_subject_parcels_ops
    [] fn = "poi_parcels" -> poi_parcels_ops
    [] fn = "mowing_parcels" -> mowing_parcels_ops
    [] fn = "delete" -> delete_ops

\* the record logged before each step (lines 390-422)
StartedMsg ==
  << "--- Permits to Parcels Started ---", "--- Nehemiah Parcels Started ---",
     "--- TSP Parcels Started ---", "--- City Parcels Started ---",
     "--- Surplus Parcels Started ---", "--- Other Subject Parcels Started---",
     "--- Points of Interest Parcels Started ---", "--- Mowing Parcels Started ---",
     "--- Data Cleanup Started" >>

\* the record logged after each step (lines 392-424)
CompletedMsg ==
  << "--- Permits to Parcels Completed ---", "--- Nehemiah Parcels Completed ---",
     "--- TSP Parcels Completed ---", "--- City Parcels Completed ---",
     "--- Surplus Parcels Completed ---", "--- Other Subject Parcels Complete",
     "--- Points of Interest Parcels Complete ---", "--- Mowing Parcels Completed ---",
     "--- Data Cleanup Completed" >>

Info(msg) == [level |-> "INFO", msg |-> msg]
Error(msg) == [level |-> "ERROR", msg |-> msg]

----------------------------------------------------------------------------
\* The run

\* derived_parcels is entered: nothing logged, nothing called, nothing written
\* yet; the owner table holds at most n rows
InitWith(n) ==
  /\ pc = "init" /\ step = 1 /\ ip = 0
  /\ exc = "None" /\ caught = FALSE
  /\ log = <<>> /\ shutdown = FALSE
  /\ calls = <<>> /\ events = <<>>
  /\ gdb = <<>>
  /\ owners \in SeqsUpTo(OwnerRows, n)
  /\ limits \in SUBSET Locations

Init == InitWith(MaxOwners)

\* the step function the try body is in
Current == StepName[step]

\* lines 66-72: the logger is created and the first record written
start_rotating_logging ==
  /\ pc = "init"
  /\ log' = Append(log, Info("--- Script Execution Started ---"))
  /\ pc' = "try"
  /\ UNCHANGED <<step, ip, exc, caught, shutdown, calls, events, gdb, owners, limits>>

\* line 45, called at line 71 outside the try: the log file cannot be opened
\* and the exception leaves derived_parcels before any record is written
start_rotating_logging_raises ==
  /\ pc = "init"
  /\ exc' = "FileNotFoundError"
  /\ pc' = "propagated"
  /\ UNCHANGED <<step, ip, caught, log, shutdown, calls, events, gdb, owners, limits>>

\* the "Started" record of a step and the call of its function
\* (lines 390-391, 394-395, ..., 422-423)
StepStarted ==
  /\ pc = "try" /\ ip = 0
  /\ log' = Append(log, Info(StartedMsg[step]))
  /\ events' = Append(events, [ev |-> "call", fn |-> Current])
  /\ ip' = 1
  /\ UNCHANGED <<pc, step, exc, caught, shutdown, calls, gdb, owners, limits>>

\* the function returns, its "Completed" record is written and the try body
\* moves to the next step, or leaves the try after the last
StepCompleted ==
  /\ pc = "try" /\ ip = Len(OpsOf(Current)) + 1
  /\ events' = Append(events, [ev |-> "return", fn |-> Current])
  /\ log' = Append(log, Info(CompletedMsg[step]))
  /\ IF step < Len(StepName)
     THEN step' = step + 1 /\ ip' = 0 /\ pc' = pc
     ELSE pc' = "finally" /\ UNCHANGED <<step, ip>>
  /\ UNCHANGED <<exc, caught, shutdown, calls, gdb, owners, limits>>

\* an arcpy call returns: its output is written and the function goes on
Returns(g) ==
  /\ gdb' = g
  /\ ip' = ip + 1
  /\ UNCHANGED <<pc, exc, events>>

\* as Raises, were the exception swallowed around the call and the step to go on
RaisesSwallowed(e) ==
  /\ events' = Append(events, [ev |-> "raise", fn |-> StepName[step]])
  /\ ip' = ip + 1
  /\ UNCHANGED <<gdb, pc, exc>>

\* an arcpy call raises e: no step function catches anything, so control
\* leaves the function and the try body for the except clauses (line 426)
Raises(e) ==
  /\ exc' = e
  /\ pc' = "except"
  /\ events' = Append(events, [ev |-> "raise", fn |-> Current])
  /\ UNCHANGED <<gdb, ip>>

\* one arcpy call: issued, then it returns leaving g or raises
Call(op, g) ==
  /\ calls' = Append(calls, op)
  /\ \/ Returns(g)
     \/ \E e \in Raisable : Raises(e)

\* contents written by a call whose result is tracked by name only: a copy
\* or a layer has the contents of its input
CopyOrOpaque(g, op) ==
  IF op.tool \in {"FeatureClassToFeatureClass_conversion", "MakeFeatureLayer_management"}
  THEN Read(g, CHOOSE p \in op.ins : TRUE)
  ELSE Opaque

\* the step is at one of its calls
AtCall(fn) == pc = "try" /\ Current = fn /\ ip \in 1..Len(OpsOf(fn))

\* lines 150-240
permits_to_parcels ==
  /\ AtCall("permits_to_parcels")
  /\ LET op == permits_to_parcels_ops[ip]
     IN Call(op, Write(gdb, op.out, CopyOrOpaque(gdb, op)))
  /\ UNCHANGED <<step, caught, log, shutdown, owners, limits>>

\* lines 242-251
nehemiah_parcels ==
  /\ AtCall("nehemiah_parcels")
  /\ LET op == nehemiah_parcels_ops[ip]
         contents ==
           CASE ip = 1 -> TableToTable(Read(gdb, parcel_owners),
                            "Owner1 LIKE '%NEHEMIAH AFFORDABLE HOUSING II%' Or Owner1 LIKE '%NEHEMIAH AFFORDABLE HOUSING LP%' Or Owner1 LIKE '%NEHEMIAH EXPANSION%' Or Owner1 LIKE '%NEHEMIAH PSJ LP%'")
             [] ip = 2 -> AddJoin(Read(gdb, parcel_polygons), Read(gdb, parcels_nehemiah_table))
             [] ip = 3 -> Read(gdb, Layer("joined_tables"))
     IN Call(op, Write(gdb, op.out, contents))
  /\ UNCHANGED <<step, caught, log, shutdown, owners, limits>>

\* lines 253-258
tsp_parcels ==
  /\ AtCall("tsp_parcels")
  /\ LET op == tsp_parcels_ops[ip]
         contents ==
           CASE ip = 1 -> TableToTable(Read(gdb, parcel_owners), "Owner1 LIKE '%TSP%'")
             [] ip = 2 -> AddJoin(Read(gdb, parcel_polygons), Read(gdb, parcels_tsp_table))
             [] ip = 3 -> Read(gdb, Layer("joined_tables"))
     IN Call(op, Write(gdb, op.out, contents))
  /\ UNCHANGED <<step, caught, log, shutdown, owners, limits>>

\* lines 260-273
city_parcels ==
  /\ AtCall("city_parcels")
  /\ LET op == city_parcels_ops[ip]
         contents ==
           CASE ip = 1 -> TableToTable(Read(gdb, parcel_owners),
                            "MTGCode = 26 Or MTGCODE =66 Or MTGCode = 72 Or MTGCode = 73 Or Owner1 = 'SANGAMON COUNTY TRUSTEE'")
             [] ip = 2 -> AddJoin(Read(gdb, parcel_polygons), Read(gdb, parcels_city_table))
             [] ip = 3 -> Read(gdb, Layer("joined_tables"))
             [] ip = 4 -> Select_analysis(Read(gdb, parcels_owner_city),
                            "SubjectParcels.MTGCode = 26 Or SubjectParcels.MTGCode = 66")
             [] ip = 5 -> Select_analysis(Read(gdb, parcels_owner_city), "SubjectParcels.MTGCode = 72")
             [] ip = 6 -> Select_analysis(Read(gdb, parcels_owner_city), "SubjectParcels.MTGCode = 73")
             [] ip = 7 -> Select_analysis(Read(gdb, parcels_owner_city),
                            "SubjectParcels.Owner1 = 'SANGAMON COUNTY TRUSTEE'")
     IN Call(op, Write(gdb, op.out, contents))
  /\ UNCHANGED <<step, caught, log, shutdown, owners, limits>>

\* lines 275-277
surplus_parcels ==
  /\ AtCall("surplus_parcels")
  /\ LET op == surplus_parcels_ops[ip]
     IN Call(op, Write(gdb, op.out, Read(gdb, parcels_surplus)))
  /\ UNCHANGED <<step, caught, log, shutdown, owners, limits>>

\* lines 279-320
other_subject_parcels ==
  /\ AtCall("other_subject_parcels")
  /\ LET op == other_subject_parcels_ops[ip]
     IN Call(op, Write(gdb, op.out, Opaque))
  /\ UNCHANGED <<step, caught, log, shutdown, owners, limits>>

\* lines 322-324
poi_parcels ==
  /\ AtCall("poi_parcels")
  /\ LET op == poi_parcels_ops[ip]
     IN Call(op, Write(gdb, op.out, Opaque))
  /\ UNCHANGED <<step, caught, log, shutdown, owners, limits>>

\* lines 326-381
mowing_parcels ==
  /\ AtCall("mowing_parcels")
  /\ \E lenient \in BOOLEAN :
       LET op == mowing_parcels_ops[ip]
           mz == Read(gdb, mow_zones)
           contents ==
             CASE ip = 1 -> Read(gdb, row)
               [] ip = 2 -> HaveTheirCenterIn(Read(gdb, parcels_trustee), limits)
               [] ip = 3 -> Append_management(mz, parcels_trustee,
                              Selected(Read(gdb, parcels_trustee), Read(gdb, Layer("selected_city_parcels"))),
                              op.field_mapping, lenient)
               [] ip = 4 -> HaveTheirCenterIn(Read(gdb, parcels_surplus), limits)
               [] ip = 5 -> Append_management(mz, parcels_surplus,
                              Selected(Read(gdb, parcels_surplus), Read(gdb, Layer("selected_surplus_property_parcels"))),
                              op.field_mapping, lenient)
               [] ip = 6 -> Calculate(mz, 1..Len(mz), << <<"MowedBy", <<"PW">> >> >>)
               [] ip = 7 -> SelectLayerByAttribute(mz, "Description LIKE '%SANGAMON COUNTY TRUSTEE%'")
               [] ip = 8 -> Calculate(mz, Read(gdb, Layer("selected_county_trustee_parcels")),
                              << <<"Use_", <<"PARCEL">> >>, <<"MowedBy", <<"CONT">> >> >>)
               [] ip = 9 -> SelectLayerByAttribute(mz, "Use_ LIKE '%Vacant Lot%'")
               [] ip = 10 -> Calculate(mz, Read(gdb, Layer("selected_surplus_property_parcels")),
                              << <<"Description", <<"Vacant", "Lot">> >> >>)
               [] ip = 11 -> Calculate(mz, Read(gdb, Layer("selected_surplus_property_parcels")),
                              << <<"Description", <<"Vacant", "Lot">> >>, <<"MowedBy", <<"CONT">> >> >>)
       IN Call(op, Write(gdb, op.out, contents))
  /\ UNCHANGED <<step, caught, log, shutdown, owners, limits>>

\* lines 383-386
delete ==
  /\ AtCall("delete")
  /\ Call(delete_ops[ip], Remove(gdb, to_delete[ip]))
  /\ UNCHANGED <<step, caught, log, shutdown, owners, limits>>

\* lines 426-432
ExceptValueError ==
  /\ pc = "except" /\ Handler(exc) = 1
  /\ log' = Append(log, Error("Line: {exc_traceback.tb_lineno} --- {e}"))
  /\ caught' = TRUE
  /\ pc' = "finally"
  /\ UNCHANGED <<step, ip, exc, shutdown, calls, events, gdb, owners, limits>>

\* lines 434-439
ExceptIOErrorKeyErrorNameError ==
  /\ pc = "except" /\ Handler(exc) = 2
  /\ log' = Append(log, Error("traceback.format_exc()"))
  /\ caught' = TRUE
  /\ pc' = "finally"
  /\ UNCHANGED <<step, ip, exc, shutdown, calls, events, gdb, owners, limits>>

\* as ExceptExecuteError, were the messages printed and not logged
ExceptExecuteErrorPrints ==
  /\ pc = "except" /\ Handler(exc) = 3
  /\ caught' = TRUE
  /\ pc' = "finally"
  /\ UNCHANGED <<step, ip, exc, log, shutdown, calls, events, gdb, owners, limits>>

\* lines 441-445
ExceptExecuteError ==
  /\ pc = "except" /\ Handler(exc) = 3
  /\ log' = Append(log, Error("arcpy.GetMessages(2)"))
  /\ caught' = TRUE
  /\ pc' = "finally"
  /\ UNCHANGED <<step, ip, exc, shutdown, calls, events, gdb, owners, limits>>

\* no except clause names the exception: it stays in flight through the finally
NoExceptClause ==
  /\ pc = "except" /\ Handler(exc) = 0
  /\ pc' = "finally"
  /\ UNCHANGED <<step, ip, exc, caught, log, shutdown, calls, events, gdb, owners, limits>>

\* as Finally, were the last record and the shutdown the last lines of the try body
FinallyAtEndOfTry ==
  /\ pc = "finally"
  /\ IF exc = "None"
     THEN log' = Append(log, Info("--- Script Execution Completed ---")) /\ shutdown' = TRUE
     ELSE UNCHANGED <<log, shutdown>>
  /\ pc' = IF exc # "None" /\ ~caught THEN "propagated" ELSE "returned"
  /\ UNCHANGED <<step, ip, exc, caught, calls, events, gdb, owners, limits>>

\* lines 447-452: the last record, logging.shutdown(), then derived_parcels
\* returns to main, or the exception no clause took goes on to main
Finally ==
  /\ pc = "finally"
  /\ log' = Append(log, Info("--- Script Execution Completed ---"))
  /\ shutdown' = TRUE
  /\ pc' = IF exc # "None" /\ ~caught THEN "propagated" ELSE "returned"
  /\ UNCHANGED <<step, ip, exc, caught, calls, events, gdb, owners, limits>>

Next ==
  \/ start_rotating_logging
  \/ start_rotating_logging_raises
  \/ StepStarted
  \/ permits_to_parcels
  \/ nehemiah_parcels
  \/ tsp_parcels
  \/ city_parcels
  \/ surplus_parcels
  \/ other_subject_parcels
  \/ poi_parcels
  \/ mowing_parcels
  \/ delete
  \/ StepCompleted
  \/ ExceptValueError
  \/ ExceptIOErrorKeyErrorNameError
  \/ ExceptExecuteError
  \/ NoExceptClause
  \/ Finally

Spec == Init /\ [][Next]_vars

\* every call into the engine ends and the interpreter keeps running the
\* script; the control flow does not read the owner table, which is kept
\* shorter here
FairInit == InitWith(MaxOwnersFair)
FairSpec == FairInit /\ [][Next]_vars /\ WF_vars(Next)

----------------------------------------------------------------------------
\* What the claims speak of

\* the run of derived_parcels is over
Finished == pc \in {"returned", "propagated"}

\* step function fn was called / has returned / has raised
Called(fn) == \E i \in 1..Len(events) : events[i] = [ev |-> "call", fn |-> fn]
Returned(fn) == \E i \in 1..Len(events) : events[i] = [ev |-> "return", fn |-> fn]
Raised(fn) == \E i \in 1..Len(events) : events[i] = [ev |-> "raise", fn |-> fn]

\* some step raised
StepRaised == \E i \in 1..Len(events) : events[i].ev = "raise"

\* the pipeline as the claims list it
Pipeline ==
  << "permits_to_parcels", "nehemiah_parcels", "tsp_parcels", "city_parcels", "surplus_parcels",
     "other_subject_parcels", "poi_parcels", "mowing_parcels", "delete" >>

\* the eight derivation steps
Derivations == {Pipeline[k] : k \in 1..(Len(Pipeline) - 1)}

\* the classes the except clauses name
NamedClasses ==
  {"ValueError", "OSError", "KeyError", "NameError", "IndexError", "TypeError",
   "UnboundLocalError", "ExecuteError"}

\* the exception in flight is an instance of a class some except clause names
OfNamedClass == \E cls \in NamedClasses : IsInstance(exc, cls)

\* positions of the Delete_management calls, and their targets in call order
DeleteCalls == {i \in 1..Len(calls) : calls[i].tool = "Delete_management"}
DeleteTargets ==
  LET del(c) == c.tool = "Delete_management"
      ds == SelectSeq(calls, del)
  IN [i \in 1..Len(ds) |-> CHOOSE p \in ds[i].ins : TRUE]

\* positions of the records of a level, of a message
LevelAt(level) == {i \in 1..Len(log) : log[i].level = level}
MsgAt(msg) == {i \in 1..Len(log) : log[i].msg = msg}

----------------------------------------------------------------------------
\* C1 as stated: whatever a pipeline step raises is caught inside
\* derived_parcels and never reaches main.
C1_Blanket == StepRaised => pc # "propagated"

\* C1 as amended: an exception a pipeline step raises is caught inside
\* derived_parcels exactly when it is an instance of a class the except
\* clauses name (ValueError, IOError, KeyError, NameError, IndexError,
\* TypeError, UnboundLocalError, arcpy.ExecuteError); one of any other class
\* reaches main once the finally block has run.
C1_CaughtIffNamed ==
  (StepRaised /\ Finished) =>
     /\ OfNamedClass <=> pc = "returned"
     /\ ~OfNamedClass <=> pc = "propagated"

\* a step raised a subclass of a named class and derived_parcels returned
C1_Witness == StepRaised /\ pc = "returned" /\ exc = "UnicodeError"

\* C2: once a step has raised, no later step is started and no further call
\* is issued (no Delete_management call at all when a derivation step
\* raised), and no step is started twice.
C2_FailureAborts ==
  /\ [](\A k \in 1..Len(Pipeline) :
          Raised(Pipeline[k]) =>
            /\ \A j \in (k+1)..Len(Pipeline) : ~Called(Pipeline[j])
            /\ k < Len(Pipeline) => DeleteCalls = {}
            /\ Cardinality({i \in 1..Len(events) :
                              events[i] = [ev |-> "call", fn |-> Pipeline[k]]}) = 1)
  /\ [][StepRaised => (calls' = calls /\ events' = events)]_vars

\* city_parcels raised and the run is over
C2_Witness == Raised("city_parcels") /\ Finished

\* C3 as stated: when all eight derivation steps succeeded, the run issues
\* exactly one Delete_management call per entry of to_delete, in list order.
C3_AllThirteen ==
  (Finished /\ \A fn \in Derivations : Returned(fn)) => DeleteTargets = to_delete

\* C3 as amended: when all eight derivation steps succeeded the cleanup is
\* started after them and issues Delete_management calls for the entries of
\* to_delete in list order, one per entry, up to the first call that raises:
\* all 13 when none raises.  Delete_management is never called before the
\* eight steps returned, and no other call follows a Delete_management call.
C3_DeletePrefix ==
  /\ (Finished /\ \A fn \in Derivations : Returned(fn)) => Called("delete")
  /\ DeleteCalls # {} => (Called("delete") /\ \A fn \in Derivations : Returned(fn))
  /\ Len(DeleteTargets) <= Len(to_delete)
  /\ \A i \in 1..Len(DeleteTargets) : i <= Len(to_delete) /\ DeleteTargets[i] = to_delete[i]
  /\ Returned("delete") => (DeleteTargets = to_delete /\ Len(DeleteTargets) = 13)
  /\ (Called("delete") /\ Finished /\ ~Returned("delete")) =>
        (Raised("delete") /\ Len(DeleteTargets) \in 1..Len(to_delete))
  /\ \A i \in DeleteCalls : \A j \in (i+1)..Len(calls) : j \in DeleteCalls

\* the cleanup ran to its end
C3_Witness == pc = "returned" /\ Returned("delete") /\ Len(DeleteTargets) = 13

\* C4: the steps start in the order permits_to_parcels, nehemiah_parcels,
\* tsp_parcels, city_parcels, surplus_parcels, other_subject_parcels,
\* poi_parcels, mowing_parcels, delete, each at most once, and a step starts
\* only right after the step before it returned.
C4_FixedOrder ==
  LET isCall(e) == e.ev = "call"
      starts == SelectSeq(events, isCall)
  IN /\ Len(starts) <= Len(Pipeline)
     /\ \A k \in 1..Len(starts) : k <= Len(Pipeline) /\ starts[k].fn = Pipeline[k]
     /\ \A i \in 1..Len(events) :
          events[i].ev = "call" =>
            \/ i = 1 /\ events[i].fn = Pipeline[1]
            \/ /\ i > 1
               /\ events[i-1].ev = "return"
               /\ \E k \in 1..(Len(Pipeline) - 1) :
                    events[i-1].fn = Pipeline[k] /\ events[i].fn = Pipeline[k+1]

\* all nine steps were started
C4_Witness == pc = "returned" /\ \A k \in 1..Len(Pipeline) : Called(Pipeline[k])

\* the ERROR record lies after the failing step's Started record and before
\* the last record of the run
ErrorBetween ==
  \A i \in LevelAt("ERROR") :
     /\ \E j \in MsgAt(StartedMsg[step]) : j < i
     /\ \A j \in MsgAt("--- Script Execution Completed ---") : i < j

\* C5 as stated: a run in which a step raised has exactly one ERROR record,
\* after the failing step's Started record and before the last record.
C5_EveryFailureLogged ==
  (StepRaised /\ Finished) => (Cardinality(LevelAt("ERROR")) = 1 /\ ErrorBetween)

\* C5 as amended: a run in which a step raised an instance of a class the
\* except clauses name has exactly one ERROR record, after the failing
\* step's Started record and before "--- Script Execution Completed ---";
\* a run in which a step raised any other exception has no ERROR record.
C5_NamedFailureLogged ==
  (StepRaised /\ Finished) =>
     /\ OfNamedClass => (Cardinality(LevelAt("ERROR")) = 1 /\ ErrorBetween)
     /\ ~OfNamedClass => LevelAt("ERROR") = {}
     /\ MsgAt("--- Script Execution Completed ---") # {}

\* an engine failure in mowing_parcels was logged
C5_Witness ==
  /\ Finished /\ Raised("mowing_parcels") /\ exc = "ExecuteError"
  /\ Cardinality(LevelAt("ERROR")) = 1

----------------------------------------------------------------------------
\* how many features of fc have shape sh
CountShape(fc, sh) == Cardinality({i \in 1..Len(fc) : fc[i].Shape = sh})

\* how many features of fc have shape sh and their center inside the city limits
CountShapeInCity(fc, sh) ==
  Cardinality({i \in 1..Len(fc) : fc[i].Shape = sh /\ fc[i].Shape.center \in limits})

\* the shapes of the features of fc
ShapesOf(fc) == {fc[i].Shape : i \in 1..Len(fc)}

\* the datasets C6 speaks of, as the run left them
MowZones == Read(gdb, mow_zones)
Parcels_CountyTrustee == Read(gdb, parcels_trustee)

\* C6: after mowing_parcels returned, MowZones holds every ROW feature,
\* every Parcels_CountyTrustee parcel with its center inside the city limits
\* and every SurplusProperty parcel with its center inside the city limits,
\* each as often as its source holds it, and nothing else: no trustee or
\* surplus parcel with its center outside the limits.
C6_MowZonesExactly ==
  Returned("mowing_parcels") =>
    /\ \A sh \in ShapesOf(MowZones) \cup ShapesOf(ROW) \cup ShapesOf(Parcels_CountyTrustee)
                   \cup ShapesOf(SurplusProperty) :
          CountShape(MowZones, sh) =
             CountShape(ROW, sh) + CountShapeInCity(Parcels_CountyTrustee, sh)
               + CountShapeInCity(SurplusProperty, sh)
    /\ \A sh \in ShapesOf(Parcels_CountyTrustee) \cup ShapesOf(SurplusProperty) :
          sh.center \notin limits => sh \notin ShapesOf(MowZones)

\* mowing_parcels returned with a trustee parcel inside the limits, a
\* trustee parcel outside and a surplus parcel on either side
C6_Witness ==
  /\ Returned("mowing_parcels")
  /\ \E i, j \in 1..Len(Parcels_CountyTrustee) :
        /\ Parcels_CountyTrustee[i].Shape.center \in limits
        /\ Parcels_CountyTrustee[j].Shape.center \notin limits
  /\ \E i, j \in 1..Len(SurplusProperty) :
        /\ SurplusProperty[i].Shape.center \in limits
        /\ SurplusProperty[j].Shape.center \notin limits

\* the PINs of the features of fc
PinsOf(fc) == {fc[i].PIN : i \in 1..Len(fc)}

\* C7: after nehemiah_parcels returned, Parcels_Nehemiah holds a parcel
\* polygon if and only if its PIN is the PIN1 of an owner record whose
\* Owner1 contains NEHEMIAH.
C7_OwnerContainsNehemiah ==
  Returned("nehemiah_parcels") =>
    \A i \in 1..Len(ParcelPoly) :
       ParcelPoly[i].PIN \in PinsOf(Read(gdb, join(parcel_derivatives, "Parcels_Nehemiah")))
         <=> \E k \in 1..Len(owners) :
               owners[k].PIN1 = ParcelPoly[i].PIN /\ Like(owners[k].Owner1, <<"NEHEMIAH">>)

\* the outputs of the calls issued so far that are not deletions
Created == {calls[i].out : i \in {j \in 1..Len(calls) : calls[j].tool # "Delete_management"}}

\* the outputs of the TableToTable_conversion calls issued so far
TablesWritten ==
  {calls[i].out : i \in {j \in 1..Len(calls) : calls[j].tool = "TableToTable_conversion"}}

\* C8: when the cleanup starts, every entry of to_delete is a dataset an
\* earlier step created under exactly that name, and every table a
\* TableToTable_conversion call wrote is an entry of to_delete.
C8_CleanupNamesWhatWasCreated ==
  Called("delete") =>
    /\ \A i \in 1..Len(to_delete) : to_delete[i] \in Created
    /\ \A t \in TablesWritten : \E i \in 1..Len(to_delete) : to_delete[i] = t

\* the last record of the run is the last record of the log, written once
CompletedOnce ==
  /\ Cardinality(MsgAt("--- Script Execution Completed ---")) = 1
  /\ log[Len(log)] = Info("--- Script Execution Completed ---")

\* C9: once the logger exists, the run comes to write
\* "--- Script Execution Completed ---" and to shut logging down, whatever
\* the pipeline did; the record is written once, it is the last record, and
\* logging is shut down only after it.
C9_AlwaysCompletes ==
  /\ (pc = "try") ~> (shutdown /\ Finished)
  /\ [](Cardinality(MsgAt("--- Script Execution Completed ---")) <= 1)
  /\ []((shutdown \/ Finished) => (log = <<>> \/ (shutdown /\ CompletedOnce)))

\* the last record was written in a run whose exception no clause names
C9_Witness == shutdown /\ CompletedOnce /\ pc = "propagated" /\ exc = "RuntimeError"

\* the records of fc
RecordsOf(fc) == {fc[i] : i \in 1..Len(fc)}

\* the datasets C10 speaks of
Parcels_City == RecordsOf(Read(gdb, parcels_owner_city))
Parcels_CWLP == RecordsOf(Read(gdb, parcels_cwlp))
Parcels_COSPW == RecordsOf(Read(gdb, parcels_cospw))
Parcels_OPED == RecordsOf(Read(gdb, parcels_oped))

\* C10: after city_parcels returned, every record of Parcels_City has
\* MTGCode 26, 66, 72 or 73 or Owner1 'SANGAMON COUNTY TRUSTEE' and is in
\* Parcels_CWLP, Parcels_COSPW, Parcels_OPED or Parcels_CountyTrustee, and
\* the first three have no record in common.
C10_SplitLosesNothing ==
  Returned("city_parcels") =>
    /\ \A r \in Parcels_City :
          /\ r.MTGCode \in {26, 66, 72, 73} \/ r.Owner1 = <<"SANGAMON", "COUNTY", "TRUSTEE">>
          /\ r \in Parcels_CWLP \cup Parcels_COSPW \cup Parcels_OPED
                     \cup RecordsOf(Parcels_CountyTrustee)
    /\ Parcels_CWLP \cap Parcels_COSPW = {}
    /\ Parcels_CWLP \cap Parcels_OPED = {}
    /\ Parcels_COSPW \cap Parcels_OPED = {}

\* city_parcels returned with a parcel of code 66 and a trustee parcel without a city code
C10_Witness ==
  /\ Returned("city_parcels")
  /\ \E r \in Parcels_City : r.MTGCode = 66 /\ r \in Parcels_CWLP
  /\ \E r \in Parcels_City : r.MTGCode = 0 /\ r \in RecordsOf(Parcels_CountyTrustee)

\* the selections the calculations of mowing_parcels worked on
TrusteeSelected == Read(gdb, Layer("selected_county_trustee_parcels"))
VacantLotSelected == Read(gdb, Layer("selected_surplus_property_parcels"))

\* C11: after mowing_parcels returned, every MowZones record has MowedBy
\* 'PW' or 'CONT'; it is 'CONT' exactly for the records selected by
\* "Description LIKE '%SANGAMON COUNTY TRUSTEE%'" or by
\* "Use_ LIKE '%Vacant Lot%'" and 'PW' for all others; the second selection
\* is evaluated after the first update, so a record matching both clauses
\* is a trustee record only; trustee-selected records end with
\* Use_ = 'PARCEL' and vacant-lot-selected records with
\* Description = 'Vacant Lot'.
C11_MowedByPWOrCONT ==
  Returned("mowing_parcels") =>
    /\ \A i \in 1..Len(MowZones) :
          /\ MowZones[i].MowedBy \in {<<"PW">>, <<"CONT">>}
          /\ MowZones[i].MowedBy = <<"CONT">> <=> i \in TrusteeSelected \cup VacantLotSelected
          /\ i \in TrusteeSelected => MowZones[i].Use_ = <<"PARCEL">>
          /\ i \in VacantLotSelected => MowZones[i].Description = <<"Vacant", "Lot">>
    /\ TrusteeSelected =
          {i \in 1..Len(MowZones) : Like(MowZones[i].Description, <<"SANGAMON", "COUNTY", "TRUSTEE">>)}
    /\ VacantLotSelected =
          {i \in 1..Len(MowZones) : Like(MowZones[i].Use_, <<"Vacant", "Lot">>)}
    /\ \A i \in 1..Len(ROW) :
          Like(ROW[i].Description, <<"SANGAMON", "COUNTY", "TRUSTEE">>)
            => i \in TrusteeSelected /\ i \notin VacantLotSelected

\* mowing_parcels returned with an appended trustee parcel and a ROW record
\* matching both clauses among the trustee records, a vacant lot, and a
\* record left with 'PW'
C11_Witness ==
  /\ Returned("mowing_parcels")
  /\ \E i \in TrusteeSelected : i > Len(ROW)
  /\ \E i \in TrusteeSelected :
        i <= Len(ROW) /\ Like(ROW[i].Use_, <<"Vacant", "Lot">>)
  /\ VacantLotSelected # {}
  /\ \E i \in 1..Len(MowZones) : MowZones[i].MowedBy = <<"PW">>

\* the target fields of MowZones
MowZonesFields ==
  << "ItemNo", "Use_", "Description", "DateAdded", "Misc", "MowedBy", "GlobalID",
     "Date1", "Date2", "Nbr1", "Nbr2", "Test1", "Test2", "FacilityID", "NAD83X",
     "NAD83Y", "Status", "Lbl" >>

\* the dataset whose selected features call i appends: the one the layer it
\* is handed was selected from
AppendedDataset(i) ==
  LET lyr == CHOOSE p \in calls[i].ins : p # calls[i].out
      j == CHOOSE k \in 1..(i - 1) :
             calls[k].out = lyr /\ \A l \in (k + 1)..(i - 1) : calls[l].out # lyr
  IN CHOOSE d \in calls[j].ins : d # city_limits

\* the mapping is a list of entries of the documented form, one for each
\* target field, and an entry that names a source names src
OneEntryPerField(mapping, src) ==
  LET es == Entries(mapping)
  IN /\ Len(es) = Len(MowZonesFields)
     /\ \A k \in 1..Len(es) : WellFormedEntry(es[k])
     /\ \A t \in {MowZonesFields[n] : n \in 1..Len(MowZonesFields)} :
           Cardinality({k \in 1..Len(es) : es[k][1] = t}) = 1
     /\ \A k \in 1..Len(es) :
           Len(Parts(es[k])) > 3 => Parts(es[k])[4] = <<Format(src)>>

\* C12: each field-mapping string handed to Append_management in
\* mowing_parcels is a well-formed semicolon-separated list with exactly one
\* entry for each of the 18 target fields of MowZones, and every entry that
\* names a source dataset names exactly the path of the dataset being
\* appended.
C12_FieldMappingsWellFormed ==
  \A i \in 1..Len(calls) :
     calls[i].tool = "Append_management" =>
        OneEntryPerField(calls[i].field_mapping, AppendedDataset(i))

\* the dataset is inside ParcelDerivatives.gdb
InGdb(p) ==
  /\ Len(p) = Len(parcel_derivatives) + 1
  /\ SubSeq(p, 1, Len(parcel_derivatives)) = parcel_derivatives

\* call j wrote p and no call after it and before call i deleted p
WrittenAndKept(p, j, i) ==
  /\ calls[j].out = p /\ calls[j].tool # "Delete_management"
  /\ \A k \in (j + 1)..(i - 1) :
        ~(calls[k].tool = "Delete_management" /\ p \in calls[k].ins)

\* C13: every dataset inside ParcelDerivatives.gdb that a call reads as
\* input was written by an earlier call of the same run under the same name
\* and has not been deleted since.
C13_InputsWrittenEarlier ==
  \A i \in 1..Len(calls) :
     calls[i].tool # "Delete_management" =>
        \A p \in calls[i].ins :
           InGdb(p) => \E j \in 1..(i - 1) : WrittenAndKept(p, j, i)

====
